---- MODULE Spec2Model ----
(***************************************************************************)
(* A model of gmsh::Reader (src/src/GmshReader.cpp, GmshReader.hpp): the   *)
(* assembly of a partitioned Gmsh mesh (fillMesh) and the per-partition    *)
(* JSON output (writeMeshToJson, writeInJsonFormat).                       *)
(*                                                                         *)
(* C++ containers are zero-based and TLA+ sequences one-based: Tag(tags,i) *)
(* reads the C++ tags[i].  ElementData.hpp is not part of the sources at   *)
(* hand; its methods are modelled from the specification and are marked so.*)
(***************************************************************************)
EXTENDS Integers, Sequences, FiniteSets, TLC

\* ---------------------------------------------------------------- bounds
MaxNode == 3
MaxPart == 3
MaxElems == 3
MaxCatalogElems == 2

\* ------------------------------------------- GmshReader.hpp ELEMENT_TYPE_ID
LINE2 == 1
TRIANGLE3 == 2
QUADRILATERAL4 == 3
TETRAHEDRON4 == 4
HEXAHEDRON8 == 5
PRISM6 == 6
PYRAMID5 == 7
LINE3 == 8
TRIANGLE6 == 9
QUADRILATERAL9 == 10
TETRAHEDRON10 == 11
HEXAHEDRON27 == 12
PRISM18 == 13
PYRAMID14 == 14
POINT == 15
QUADRILATERAL8 == 16
HEXAHEDRON20 == 17
PRISM15 == 18
PYRAMID13 == 19
TRIANGLE9 == 20
TRIANGLE10 == 21
TRIANGLE12 == 22
TRIANGLE15 == 23
TRIANGLE15_IC == 24
TRIANGLE21 == 25
EDGE4 == 26
EDGE5 == 27
EDGE6 == 28
TETRAHEDRON20 == 29
TETRAHEDRON35 == 30
TETRAHEDRON56 == 31
HEXAHEDRON64 == 92
HEXAHEDRON125 == 93

ELEMENT_TYPE_ID ==
    {LINE2, TRIANGLE3, QUADRILATERAL4, TETRAHEDRON4, HEXAHEDRON8, PRISM6,
     PYRAMID5, LINE3, TRIANGLE6, QUADRILATERAL9, TETRAHEDRON10, HEXAHEDRON27,
     PRISM18, PYRAMID14, POINT, QUADRILATERAL8, HEXAHEDRON20, PRISM15,
     PYRAMID13, TRIANGLE9, TRIANGLE10, TRIANGLE12, TRIANGLE15, TRIANGLE15_IC,
     TRIANGLE21, EDGE4, EDGE5, EDGE6, TETRAHEDRON20, TETRAHEDRON35,
     TETRAHEDRON56, HEXAHEDRON64, HEXAHEDRON125}

\* ------------------------------------------------------------ mapElementData
\* A mutant: the default branch falls through to the trailing return.
mapElementDataNeverThrows(elementTypeId) == FALSE

\* The default: branch of the switch: the type id is no case label.
mapElementDataThrows(elementTypeId) == elementTypeId \notin ELEMENT_TYPE_ID

\* The number of local nodes per element; -1 is the trailing return.
mapElementData(elementTypeId) ==
    CASE elementTypeId = LINE2 -> 2
      [] elementTypeId = TRIANGLE3 -> 3
      [] elementTypeId = QUADRILATERAL4 -> 4
      [] elementTypeId = TETRAHEDRON4 -> 4
      [] elementTypeId = HEXAHEDRON8 -> 8
      [] elementTypeId = PRISM6 -> 6
      [] elementTypeId = PYRAMID5 -> 5
      [] elementTypeId = LINE3 -> 3
      [] elementTypeId = TRIANGLE6 -> 6
      [] elementTypeId = QUADRILATERAL9 -> 9
      [] elementTypeId = TETRAHEDRON10 -> 10
      [] elementTypeId = HEXAHEDRON27 -> 27
      [] elementTypeId = PRISM18 -> 18
      [] elementTypeId = PYRAMID14 -> 14
      [] elementTypeId = POINT -> 1
      [] elementTypeId = QUADRILATERAL8 -> 8
      [] elementTypeId = HEXAHEDRON20 -> 20
      [] elementTypeId = PRISM15 -> 15
      [] elementTypeId = PYRAMID13 -> 13
      [] elementTypeId = TRIANGLE9 -> 19
      [] elementTypeId = TRIANGLE10 -> 10
      [] elementTypeId = TRIANGLE12 -> 12
      [] elementTypeId = TRIANGLE15 -> 15
      [] elementTypeId = TRIANGLE15_IC -> 15
      [] elementTypeId = TRIANGLE21 -> 21
      [] elementTypeId = EDGE4 -> 4
      [] elementTypeId = EDGE5 -> 5
      [] elementTypeId = EDGE6 -> 6
      [] elementTypeId = TETRAHEDRON20 -> 20
      [] elementTypeId = TETRAHEDRON35 -> 35
      [] elementTypeId = TETRAHEDRON56 -> 56
      [] elementTypeId = HEXAHEDRON64 -> 64
      [] elementTypeId = HEXAHEDRON125 -> 125
      [] OTHER -> -1

\* ------------------------------------------------------------------ helpers
Abs(x) == IF x < 0 THEN -x ELSE x

Max(a, b) == IF a < b THEN b ELSE a

MaxOf(S) == CHOOSE x \in S : \A y \in S : y <= x

Range(s) == {s[i] : i \in 1..Len(s)}

\* The C++ tags[i] of a tag list.
Tag(tags, i) == tags[i + 1]

\* Iteration order of a std::set<int>: ascending.
RECURSIVE SetInOrder(_)
SetInOrder(S) ==
    IF S = {} THEN <<>>
    ELSE LET m == CHOOSE x \in S : \A y \in S : x <= y
         IN <<m>> \o SetInOrder(S \ {m})

\* std::pair<int, int> operator<.
PairLess(k1, k2) == k1[1] < k2[1] \/ (k1[1] = k2[1] /\ k1[2] < k2[2])

\* Iteration order of the std::map keyed by std::pair<int, int>.
RECURSIVE PairsInOrder(_)
PairsInOrder(S) ==
    IF S = {} THEN <<>>
    ELSE LET m == CHOOSE x \in S : \A y \in S \ {x} : PairLess(x, y)
         IN <<m>> \o PairsInOrder(S \ {m})

\* The physical names that occur, in std::string order.
NameOrder == <<"", "solid">>

NameRank(name) == CHOOSE i \in 1..Len(NameOrder) : NameOrder[i] = name

\* std::pair<std::string, int> operator<.
KeyLess(k1, k2) ==
    \/ NameRank(k1[1]) < NameRank(k2[1])
    \/ (k1[1] = k2[1] /\ k1[2] < k2[2])

\* Iteration order of a Mesh (std::map keyed by (name, type)).
RECURSIVE KeysInOrder(_)
KeysInOrder(S) ==
    IF S = {} THEN <<>>
    ELSE LET m == CHOOSE x \in S : \A y \in S \ {x} : KeyLess(x, y)
         IN <<m>> \o KeysInOrder(S \ {m})

RECURSIVE SumOver(_, _)
SumOver(S, f) ==
    IF S = {} THEN 0
    ELSE LET x == CHOOSE y \in S : TRUE
         IN f[x] + SumOver(S \ {x}, f)

\* --------------------------------------------- ElementData (ElementData.hpp)
\* The partition ids an element carries: the owner tags[3] and the sharers
\* tags[4 .. 3 + tags[2]), which the file holds negated.
ProcessIds(tags) ==
    IF Len(tags) < 4 THEN {}
    ELSE {Abs(Tag(tags, i)) : i \in 3..(Len(tags) - 1)}

maxProcessId(e) ==
    IF ProcessIds(e.tags) = {} THEN 0 ELSE MaxOf(ProcessIds(e.tags))

isSharedByMultipleProcesses(e) == Len(e.tags) >= 3 /\ Tag(e.tags, 2) > 0

\* An element without partition tags belongs to the only process.
isOwnedByProcess(e, processId) ==
    IF Len(e.tags) < 4 THEN processId = 1
    ELSE Abs(Tag(e.tags, 3)) = processId

convertToZeroBasedIndexing(e) ==
    [e EXCEPT !.id = @ - 1,
              !.nodalConnectivity = [i \in 1..Len(@) |-> @[i] - 1]]

\* -------------------------------------------------------------- the input
\* $PhysicalNames of the file.
PhysicalNames == (1 :> "solid")

PhysicalIds == {1, 2}

\* A type id that is no ELEMENT_TYPE_ID.
UnknownTypeId == TETRAHEDRON56 + 1

ElementTypeIds == {LINE2, POINT, UnknownTypeId}

\* The node list of $Nodes: ids 1..MaxNode in file order; the coordinates
\* are stood for by ten times the position in the file.
NodeList == [i \in 1..MaxNode |-> [id |-> i, coordinates |-> 10 * i]]

\* Connectivities of the file's elements, of the length the type asks for:
\* two edges that share node 1, the second one descending, and one point.
Connectivities(numberOfNodes) ==
    CASE numberOfNodes = 2 -> {<<1, 2>>, <<MaxNode, 1>>}
      [] numberOfNodes = 1 -> {<<MaxNode>>}
      [] OTHER -> {<<>>}

\* Sharer tags of an element owned by o: one sharer, or all other partitions.
SharerLists(o) ==
    {<<-s>> : s \in (1..MaxPart) \ {o}}
    \cup {[i \in 1..(MaxPart - 1) |-> -(SetInOrder((1..MaxPart) \ {o})[i])]}

\* Tag lists of an element in one partition only: physical id, geometric
\* entity and, in a partitioned file, one partition and its owner.
PlainTagLists ==
    {<<ph, 0>> : ph \in PhysicalIds} \cup {<<1, 0, 1, o>> : o \in 1..MaxPart}

\* Tag lists of a shared element: the partition count, the owner, the sharers.
SharedTagLists ==
    UNION {{<<1, 0, 1 + Len(s), o>> \o s : s \in SharerLists(o)} :
             o \in 1..MaxPart}

\* The element records a file may hold, by type: (tags, connectivity).
ElementRecords(elementTypeId) ==
    IF elementTypeId = POINT
    THEN {[tags |-> t, nodalConnectivity |-> c] :
            t \in {<<1, 0>>, <<1, 0, 1, MaxPart>>},
            c \in Connectivities(mapElementData(elementTypeId))}
    ELSE {[tags |-> t, nodalConnectivity |-> c] :
            t \in PlainTagLists \cup SharedTagLists,
            c \in Connectivities(mapElementData(elementTypeId))}

\* ------------------------------------------------------------------- state
VARIABLES
    pc,                        \* fillMesh | writeMeshToJson | done | failed
    error,                     \* what was thrown, "" while nothing was
    useZeroBasedIndexing,
    useLocalNodalConnectivity,
    physicalGroupMap,
    nodeList,
    elementIds,                \* the count the $Elements record declares
    elementId,                 \* the loop variable of the $Elements loop
    records,                   \* the element records consumed so far
    meshes,
    interfaceElementMap,
    number_of_partitions,
    partition,                 \* the loop variable of writeMeshToJson
    calls,                     \* the arguments of each writeInJsonFormat call
    files                      \* the output files, in the order opened

vars == <<pc, error, useZeroBasedIndexing, useLocalNodalConnectivity,
          physicalGroupMap, nodeList, elementIds, elementId, records, meshes,
          interfaceElementMap, number_of_partitions, partition, calls, files>>

\* The Reader after its member initialisers, with $PhysicalNames, $Nodes and
\* the count of $Elements read.
Init ==
    /\ pc = "fillMesh"
    /\ error = ""
    /\ useZeroBasedIndexing \in BOOLEAN
    /\ useLocalNodalConnectivity \in BOOLEAN
    /\ physicalGroupMap = PhysicalNames
    /\ nodeList = NodeList
    /\ elementIds \in 0..MaxElems
    /\ elementId = 0
    /\ records = <<>>
    /\ meshes = <<>>
    /\ interfaceElementMap = <<>>
    /\ number_of_partitions = 1
    /\ partition = 0
    /\ calls = <<>>
    /\ files = <<>>

\* ----------------------------------------------------------------- fillMesh
\* A mutant: the partition count is overwritten by the element's.
NoMaxPartitions(e, n) == maxProcessId(e)

\* number_of_partitions = std::max(elementData.maxProcessId(), ...).
UpdatedPartitions(e, n) == Max(maxProcessId(e), n)

\* physicalGroupMap[physicalId]: std::map::operator[] inserts an empty name
\* for a key it does not hold.
PhysicalGroupMapAfterLookup(map, physicalId) ==
    IF physicalId \in DOMAIN map THEN map ELSE map @@ (physicalId :> "")

\* A mutant: the bucket is assigned, not appended to.
PushBackOverwrites(mesh, key, e) ==
    IF key \in DOMAIN mesh THEN [mesh EXCEPT ![key] = <<e>>]
    ELSE mesh @@ (key :> <<e>>)

\* meshes[key].push_back(elementData).
PushBack(mesh, key, e) ==
    IF key \in DOMAIN mesh THEN [mesh EXCEPT ![key] = Append(@, e)]
    ELSE mesh @@ (key :> <<e>>)

\* One (owner, sharer) entry of the interface loop: the element's nodes are
\* united into the set of the pair, which is created when absent.
InterfaceInsert(map, ownership, nodes) ==
    IF ownership \in DOMAIN map THEN [map EXCEPT ![ownership] = @ \cup nodes]
    ELSE map @@ (ownership :> nodes)

\* for (int i = 4; i < tags[2] + 3; ++i) over the sharer tags.
RECURSIVE InterfaceLoop(_, _, _, _)
InterfaceLoop(map, tags, nodes, i) ==
    IF i < Tag(tags, 2) + 3
    THEN InterfaceLoop(InterfaceInsert(map, <<Tag(tags, 3), -Tag(tags, i)>>, nodes),
                       tags, nodes, i + 1)
    ELSE map

InterfaceMapAfter(map, e) ==
    IF isSharedByMultipleProcesses(e)
    THEN InterfaceLoop(map, e.tags, Range(e.nodalConnectivity), 4)
    ELSE map

\* One pass of the $Elements loop for a record of a known type.
ReadElement ==
    /\ pc = "fillMesh"
    /\ elementId < elementIds
    /\ \E elementTypeId \in ElementTypeIds :
         /\ ~mapElementDataThrows(elementTypeId)
         /\ \E r \in ElementRecords(elementTypeId) :
              LET elementData == [id |-> elementId + 1,
                                  typeId |-> elementTypeId,
                                  tags |-> r.tags,
                                  nodalConnectivity |-> r.nodalConnectivity]
                  physicalId == Tag(r.tags, 0)
                  map == PhysicalGroupMapAfterLookup(physicalGroupMap, physicalId)
              IN /\ records' = Append(records, elementData)
                 /\ number_of_partitions' =
                        UpdatedPartitions(elementData, number_of_partitions)
                 /\ physicalGroupMap' = map
                 /\ meshes' = PushBack(meshes, <<map[physicalId], elementTypeId>>,
                                       elementData)
                 /\ interfaceElementMap' =
                        InterfaceMapAfter(interfaceElementMap, elementData)
    /\ elementId' = elementId + 1
    /\ UNCHANGED <<pc, error, useZeroBasedIndexing, useLocalNodalConnectivity,
                   nodeList, elementIds, partition, calls, files>>

\* One pass of the $Elements loop for a record whose type mapElementData
\* rejects: the exception leaves the constructor before the tags are read.
ReadUnsupportedElement ==
    /\ pc = "fillMesh"
    /\ elementId < elementIds
    /\ \E elementTypeId \in ElementTypeIds :
         /\ mapElementDataThrows(elementTypeId)
         /\ records' = Append(records, [id |-> elementId + 1,
                                        typeId |-> elementTypeId,
                                        tags |-> <<>>,
                                        nodalConnectivity |-> <<>>])
    /\ pc' = "failed"
    /\ error' = "UnsupportedElementType"
    /\ UNCHANGED <<useZeroBasedIndexing, useLocalNodalConnectivity,
                   physicalGroupMap, nodeList, elementIds, elementId, meshes,
                   interfaceElementMap, number_of_partitions, partition, calls,
                   files>>

\* The end of the file: fillMesh and the constructor return.
EndOfFile ==
    /\ pc = "fillMesh"
    /\ elementId = elementIds
    /\ pc' = "writeMeshToJson"
    /\ UNCHANGED <<error, useZeroBasedIndexing, useLocalNodalConnectivity,
                   physicalGroupMap, nodeList, elementIds, elementId, records,
                   meshes, interfaceElementMap, number_of_partitions, partition,
                   calls, files>>

\* ---------------------------------------------------------- writeMeshToJson
\* The elements of a bucket which belong to a process, in bucket order.
OwnedElements(elements, processId) ==
    SelectSeq(elements, LAMBDA e : isOwnedByProcess(e, processId))

\* The process mesh of a partition: a bucket exists once an element was
\* pushed into it.
ProcessMesh(mesh, part) ==
    LET keys == {k \in DOMAIN mesh : OwnedElements(mesh[k], part + 1) # <<>>}
    IN [k \in keys |-> OwnedElements(mesh[k], part + 1)]

\* boost::copy of every connectivity, bucket by bucket in map order.
RECURSIVE CopyElements(_)
CopyElements(elements) ==
    IF elements = <<>> THEN <<>>
    ELSE Head(elements).nodalConnectivity \o CopyElements(Tail(elements))

RECURSIVE CopyBuckets(_, _)
CopyBuckets(process_mesh, keys) ==
    IF keys = <<>> THEN <<>>
    ELSE CopyElements(process_mesh[Head(keys)])
             \o CopyBuckets(process_mesh, Tail(keys))

\* boost::sort: ascending, duplicates kept.  Entry i of the sorted list is
\* the value with fewer than i entries below it and at least i entries not
\* above it.  (Stated without recursion: a connectivity may hold 125 ids.)
Sort(list) ==
    LET below == [v \in Range(list) |->
                     Cardinality({j \in 1..Len(list) : list[j] < v})]
        upTo == [v \in Range(list) |->
                    Cardinality({j \in 1..Len(list) : list[j] <= v})]
    IN [i \in 1..Len(list) |->
           CHOOSE v \in Range(list) : below[v] < i /\ i <= upTo[v]]

\* A mutant: the erase of the duplicates left out.
UniqueKeepsAll(list) == list

\* std::unique and erase: the first of every run of equal neighbours is
\* kept, in order.
Unique(list) ==
    LET kept == {i \in 1..Len(list) : i = 1 \/ list[i] # list[i - 1]}
    IN [k \in 1..Cardinality(kept) |->
           list[CHOOSE p \in kept : Cardinality({q \in kept : q <= p}) = k]]

fillLocalToGlobalMap(process_mesh) ==
    Unique(Sort(CopyBuckets(process_mesh, KeysInOrder(DOMAIN process_mesh))))

\* A mutant: std::upper_bound in place of std::lower_bound.
UpperBound(list, value) ==
    Cardinality({i \in 1..Len(list) : list[i] <= value})

\* boost::lower_bound on an ascending list, as the distance from begin():
\* the number of entries below the value.
LowerBound(list, value) ==
    Cardinality({i \in 1..Len(list) : list[i] < value})

reorderLocalMesh(process_mesh, local_global_mapping) ==
    [k \in DOMAIN process_mesh |->
        [i \in 1..Len(process_mesh[k]) |->
            [process_mesh[k][i] EXCEPT !.nodalConnectivity =
                [j \in 1..Len(@) |->
                    LowerBound(local_global_mapping, @[j]) + 1]]]]

\* nodeList[node_index - 1] for every entry of the mapping.
fillLocalNodeList(nodes, local_global_mapping) ==
    [i \in 1..Len(local_global_mapping) |-> nodes[local_global_mapping[i]]]

\* A mutant: a single partition counts as a distributed mesh.
IsMeshDistributedAlways(numberOfPartitions) == numberOfPartitions > 0

\* number_of_partitions > 1, the isMeshDistributed argument.
IsMeshDistributed(numberOfPartitions) == numberOfPartitions > 1

\* The arguments writeMeshToJson hands to writeInJsonFormat for a partition,
\* under the two options of the constructor.
WriteArguments(part, zeroBased, localOrdering) ==
    LET process_mesh == ProcessMesh(meshes, part)
        local_global_mapping == fillLocalToGlobalMap(process_mesh)
        local_nodes == fillLocalNodeList(nodeList, local_global_mapping)
        ordered == IF localOrdering
                   THEN reorderLocalMesh(process_mesh, local_global_mapping)
                   ELSE process_mesh
    IN [process_mesh |->
            IF zeroBased
            THEN [k \in DOMAIN ordered |->
                     [i \in 1..Len(ordered[k]) |->
                         convertToZeroBasedIndexing(ordered[k][i])]]
            ELSE ordered,
        localToGlobalMapping |->
            IF zeroBased
            THEN [i \in 1..Len(local_global_mapping) |->
                     local_global_mapping[i] - 1]
            ELSE local_global_mapping,
        nodalCoordinates |->
            IF zeroBased
            THEN [i \in 1..Len(local_nodes) |->
                     [local_nodes[i] EXCEPT !.id = @ - 1]]
            ELSE local_nodes,
        processId |-> part,
        isMeshDistributed |-> IsMeshDistributed(number_of_partitions)]

\* -------------------------------------------------------- writeInJsonFormat
\* A mutant: the counter advances only for the pairs of this process.
NextGlobalStartIdOfProcess(globalStartId, intersection, ofProcess) ==
    IF ofProcess THEN globalStartId + Cardinality(intersection)
    ELSE globalStartId

\* globalStartId += intersection.size(), for every pair with master < slave.
NextGlobalStartId(globalStartId, intersection, ofProcess) ==
    globalStartId + Cardinality(intersection)

\* A mutant: both sides are written with the master's sign.
InterfaceValueAlwaysMaster(processId, masterId) == 1

\* processId == masterId - 1 ? 1 : -1.
InterfaceValue(processId, masterId) ==
    IF processId = masterId - 1 THEN 1 ELSE -1

\* std::set_intersection of two ascending sets.
SetIntersection(v1, v2) == v1 \cap v2

\* The loop over interfaceElementMap, from the pair at the head of keys on:
\* the groups appended to event["Interface"], the counter, and whether
\* std::map::at threw std::out_of_range for a missing (slave, master).
RECURSIVE InterfaceGroups(_, _, _, _)
InterfaceGroups(keys, processId, globalStartId, groups) ==
    IF keys = <<>>
    THEN [thrown |-> FALSE, Interface |-> groups,
          NumInterfaceNodes |-> globalStartId]
    ELSE LET masterId == Head(keys)[1]
             slaveId == Head(keys)[2]
         IN IF masterId < slaveId
            THEN IF <<slaveId, masterId>> \notin DOMAIN interfaceElementMap
                 THEN [thrown |-> TRUE, Interface |-> groups,
                       NumInterfaceNodes |-> globalStartId]
                 ELSE LET intersection ==
                              SetIntersection(
                                  interfaceElementMap[Head(keys)],
                                  interfaceElementMap[<<slaveId, masterId>>])
                          ofProcess == \/ processId = masterId - 1
                                       \/ processId = slaveId - 1
                          interfaceGroup ==
                              [Master |-> masterId,
                               Value |-> InterfaceValue(processId, masterId),
                               Slave |-> slaveId,
                               NodeIds |-> SetInOrder(intersection),
                               GlobalStartId |-> globalStartId]
                      IN InterfaceGroups(
                             Tail(keys), processId,
                             NextGlobalStartId(globalStartId, intersection,
                                               ofProcess),
                             IF ofProcess THEN Append(groups, interfaceGroup)
                             ELSE groups)
            ELSE InterfaceGroups(Tail(keys), processId, globalStartId, groups)

\* One group of event["Elements"], with printIndices at its default, true.
ElementGroup(key, elements) ==
    [Name |-> key[1],
     Type |-> key[2],
     NodalConnectivity |->
         [i \in 1..Len(elements) |-> elements[i].nodalConnectivity],
     Indices |-> [i \in 1..Len(elements) |-> elements[i].id]]

\* The JSON value built from the arguments; members are the keys it holds.
JsonEvent(args) ==
    LET keys == KeysInOrder(DOMAIN args.process_mesh)
        interface ==
            InterfaceGroups(PairsInOrder(DOMAIN interfaceElementMap),
                            args.processId, 0, <<>>)
    IN [thrown |-> args.isMeshDistributed /\ interface.thrown,
        members |->
            {"Nodes"}
            \cup (IF keys # <<>> THEN {"Elements"} ELSE {})
            \cup (IF args.isMeshDistributed
                  THEN {"LocalToGlobalMap", "NumInterfaceNodes"} ELSE {})
            \cup (IF args.isMeshDistributed /\ interface.Interface # <<>>
                  THEN {"Interface"} ELSE {}),
        Nodes |->
            [Coordinates |-> [i \in 1..Len(args.nodalCoordinates) |->
                                 args.nodalCoordinates[i].coordinates],
             Indices |-> [i \in 1..Len(args.nodalCoordinates) |->
                             args.nodalCoordinates[i].id]],
        Elements |->
            [i \in 1..Len(keys) |->
                ElementGroup(keys[i], args.process_mesh[keys[i]])],
        LocalToGlobalMap |->
            IF args.isMeshDistributed THEN args.localToGlobalMapping ELSE <<>>,
        Interface |->
            IF args.isMeshDistributed THEN interface.Interface ELSE <<>>,
        NumInterfaceNodes |->
            IF args.isMeshDistributed THEN interface.NumInterfaceNodes ELSE 0]

\* The file of a call: opened (and so created) first, written last.
OutputFile(args, event) ==
    [processId |-> args.processId,
     suffixed |-> args.isMeshDistributed,
     written |-> ~event.thrown,
     event |-> IF event.thrown THEN <<>> ELSE event]

\* One pass of the loop of writeMeshToJson that returns from
\* writeInJsonFormat; the last one ends the loop.
WritePartition ==
    /\ pc = "writeMeshToJson"
    /\ partition < number_of_partitions
    /\ LET args == WriteArguments(partition, useZeroBasedIndexing,
                                  useLocalNodalConnectivity)
           event == JsonEvent(args)
       IN /\ ~event.thrown
          /\ calls' = Append(calls, args)
          /\ files' = Append(files, OutputFile(args, event))
    /\ partition' = partition + 1
    /\ pc' = IF partition + 1 < number_of_partitions
             THEN "writeMeshToJson" ELSE "done"
    /\ UNCHANGED <<error, useZeroBasedIndexing, useLocalNodalConnectivity,
                   physicalGroupMap, nodeList, elementIds, elementId, records,
                   meshes, interfaceElementMap, number_of_partitions>>

\* One pass of the loop in which interfaceElementMap.at throws: the file was
\* opened and nothing is written to it.
WritePartitionThrows ==
    /\ pc = "writeMeshToJson"
    /\ partition < number_of_partitions
    /\ LET args == WriteArguments(partition, useZeroBasedIndexing,
                                  useLocalNodalConnectivity)
           event == JsonEvent(args)
       IN /\ event.thrown
          /\ calls' = Append(calls, args)
          /\ files' = Append(files, OutputFile(args, event))
    /\ pc' = "failed"
    /\ error' = "out_of_range"
    /\ UNCHANGED <<useZeroBasedIndexing, useLocalNodalConnectivity,
                   physicalGroupMap, nodeList, elementIds, elementId, records,
                   meshes, interfaceElementMap, number_of_partitions,
                   partition>>

Next ==
    \/ ReadElement
    \/ ReadUnsupportedElement
    \/ EndOfFile
    \/ WritePartition
    \/ WritePartitionThrows

Spec == Init /\ [][Next]_vars

\* ------------------------------------------- files with other node records
\* $Nodes with the ids MaxNode..1 in file order: distinct ids that are not
\* the sequence 1..MaxNode.  The coordinates are ten times the position.
ReversedNodeList ==
    [i \in 1..MaxNode |-> [id |-> MaxNode + 1 - i, coordinates |-> 10 * i]]

NodeLists == {NodeList, ReversedNodeList}

\* The Reader as in Init, for a file with either node list.
InitNodes ==
    /\ pc = "fillMesh"
    /\ error = ""
    /\ useZeroBasedIndexing \in BOOLEAN
    /\ useLocalNodalConnectivity \in BOOLEAN
    /\ physicalGroupMap = PhysicalNames
    /\ nodeList \in NodeLists
    /\ elementIds \in 0..MaxElems
    /\ elementId = 0
    /\ records = <<>>
    /\ meshes = <<>>
    /\ interfaceElementMap = <<>>
    /\ number_of_partitions = 1
    /\ partition = 0
    /\ calls = <<>>
    /\ files = <<>>

SpecNodes == InitNodes /\ [][Next]_vars

\* --------------------------------------- files with elements of every type
\* The node ids of a record of n nodes: the next n tokens of the line.
CatalogConnectivity(n) == [i \in 1..n |-> ((i - 1) % MaxNode) + 1]

\* One pass of the $Elements loop for a record of any type of the enum, in
\* physical group 1 and with no partition tags: as many node ids are read
\* as mapElementData returns for the type.
ReadCatalogElement ==
    /\ pc = "fillMesh"
    /\ elementId < elementIds
    /\ \E elementTypeId \in ELEMENT_TYPE_ID :
         /\ ~mapElementDataThrows(elementTypeId)
         /\ LET elementData ==
                    [id |-> elementId + 1,
                     typeId |-> elementTypeId,
                     tags |-> <<1, 0>>,
                     nodalConnectivity |->
                         CatalogConnectivity(mapElementData(elementTypeId))]
                physicalId == Tag(elementData.tags, 0)
                map == PhysicalGroupMapAfterLookup(physicalGroupMap, physicalId)
            IN /\ records' = Append(records, elementData)
               /\ number_of_partitions' =
                      UpdatedPartitions(elementData, number_of_partitions)
               /\ physicalGroupMap' = map
               /\ meshes' = PushBack(meshes, <<map[physicalId], elementTypeId>>,
                                     elementData)
               /\ interfaceElementMap' =
                      InterfaceMapAfter(interfaceElementMap, elementData)
    /\ elementId' = elementId + 1
    /\ UNCHANGED <<pc, error, useZeroBasedIndexing, useLocalNodalConnectivity,
                   nodeList, elementIds, partition, calls, files>>

\* No record has partition tags, so no interface pair exists and
\* writeInJsonFormat cannot throw.
NextCatalog ==
    \/ ReadCatalogElement
    \/ ReadUnsupportedElement
    \/ EndOfFile
    \/ WritePartition

\* The Reader as in Init, for a file of at most MaxCatalogElems elements.
InitCatalog ==
    /\ pc = "fillMesh"
    /\ error = ""
    /\ useZeroBasedIndexing \in BOOLEAN
    /\ useLocalNodalConnectivity \in BOOLEAN
    /\ physicalGroupMap = PhysicalNames
    /\ nodeList = NodeList
    /\ elementIds \in 0..MaxCatalogElems
    /\ elementId = 0
    /\ records = <<>>
    /\ meshes = <<>>
    /\ interfaceElementMap = <<>>
    /\ number_of_partitions = 1
    /\ partition = 0
    /\ calls = <<>>
    /\ files = <<>>

SpecCatalog == InitCatalog /\ [][NextCatalog]_vars

\* ------------------------------------------------------- claims: vocabulary
\* The pairs a < b both sides of which were accumulated.
ReconciledPairs ==
    {k \in DOMAIN interfaceElementMap :
        k[1] < k[2] /\ <<k[2], k[1]>> \in DOMAIN interfaceElementMap}

\* The agreed node set of a reconciled pair.
Agreed(k) == interfaceElementMap[k] \cap interfaceElementMap[<<k[2], k[1]>>]

AgreedSize == [k \in ReconciledPairs |-> Cardinality(Agreed(k))]

\* The sum of the agreed-set sizes of the reconciled pairs before k.
ExpectedStart(k) ==
    SumOver({j \in ReconciledPairs : PairLess(j, k)}, AgreedSize)

TotalInterfaceNodes == SumOver(ReconciledPairs, AgreedSize)

\* The positions in files of the files that were written.
Written == {i \in 1..Len(files) : files[i].written}

\* The positions in a written file's interface section of the entries of k.
EntriesOf(i, k) ==
    {g \in 1..Len(files[i].event.Interface) :
        /\ files[i].event.Interface[g].Master = k[1]
        /\ files[i].event.Interface[g].Slave = k[2]}

\* Some key (a, b) of the interface map has no key (b, a).
AsymmetricInterface ==
    \E k \in DOMAIN interfaceElementMap :
        k[1] # k[2] /\ <<k[2], k[1]>> \notin DOMAIN interfaceElementMap

\* The run got through fillMesh.
ParseSucceeded == pc # "fillMesh" /\ error # "UnsupportedElementType"

BucketSize == [k \in DOMAIN meshes |-> Len(meshes[k])]

Decremented(list) == [i \in 1..Len(list) |-> list[i] - 1]

\* ------------------------------------------------------------------ claims
\* C1: the start offset of each reconciled pair, in ascending (a, b) order,
\* is the sum of the agreed-set sizes of the earlier pairs, from 0; the
\* ranges [start, start + |agreed|) of the pairs partition
\* [0, NumInterfaceNodes), and NumInterfaceNodes is the sum of all sizes.
C1_GlobalInterfaceNumbering ==
    /\ \A i \in Written :
          files[i].suffixed =>
             /\ files[i].event.NumInterfaceNodes = TotalInterfaceNodes
             /\ \A g \in 1..Len(files[i].event.Interface) :
                   LET entry == files[i].event.Interface[g]
                       k == <<entry.Master, entry.Slave>>
                   IN /\ k \in ReconciledPairs
                      /\ entry.GlobalStartId = ExpectedStart(k)
                      /\ Len(entry.NodeIds) = AgreedSize[k]
    /\ (pc = "done" /\ number_of_partitions > 1) =>
          \A index \in 0..(TotalInterfaceNodes - 1) :
              Cardinality(
                  {k \in ReconciledPairs :
                      \E i \in Written : \E g \in EntriesOf(i, k) :
                          LET entry == files[i].event.Interface[g]
                          IN /\ entry.GlobalStartId <= index
                             /\ index < entry.GlobalStartId + Len(entry.NodeIds)})
                  = 1

\* Two reconciled pairs of different sizes were numbered and written.
C1_Witness ==
    /\ pc = "done"
    /\ \E k1, k2 \in ReconciledPairs :
          /\ PairLess(k1, k2)
          /\ AgreedSize[k1] = 2
          /\ AgreedSize[k2] = 1
          /\ \E i \in Written : EntriesOf(i, k2) # {}

\* C2: for every reconciled pair a < b the outputs of partitions a-1 and b-1
\* each hold exactly one entry for the pair, with the same node ids (the
\* agreed set, within both one-sided sets) and the same start offset, sign
\* +1 in a-1 and -1 in b-1; no other output holds an entry for the pair.
C2_InterfaceSymmetry ==
    pc = "done" =>
       \A k \in ReconciledPairs :
          /\ k[2] <= Len(files)
          /\ \A i \in 1..Len(files) :
                /\ files[i].written
                /\ Cardinality(EntriesOf(i, k)) =
                       IF files[i].processId \in {k[1] - 1, k[2] - 1}
                       THEN 1 ELSE 0
                /\ \A g \in EntriesOf(i, k) :
                      LET entry == files[i].event.Interface[g]
                      IN /\ entry.NodeIds = SetInOrder(Agreed(k))
                         /\ Range(entry.NodeIds) \subseteq interfaceElementMap[k]
                         /\ Range(entry.NodeIds) \subseteq
                                interfaceElementMap[<<k[2], k[1]>>]
                         /\ entry.Value =
                                IF files[i].processId = k[1] - 1 THEN 1 ELSE -1
          /\ \A i, j \in 1..Len(files) :
                \A g \in EntriesOf(i, k), h \in EntriesOf(j, k) :
                    /\ files[i].event.Interface[g].GlobalStartId =
                           files[j].event.Interface[h].GlobalStartId
                    /\ files[i].event.Interface[g].NodeIds =
                           files[j].event.Interface[h].NodeIds

\* Three partitions were written, with a reconciled pair whose agreed set is
\* non-empty and smaller than a one-sided set.
C2_Witness ==
    /\ pc = "done"
    /\ number_of_partitions = 3
    /\ \E k \in ReconciledPairs :
          /\ Agreed(k) # {}
          /\ Agreed(k) # interfaceElementMap[k]
          /\ \E i, j \in Written :
                i # j /\ EntriesOf(i, k) # {} /\ EntriesOf(j, k) # {}

\* C3: when the interface map holds exactly one of (a, b) and (b, a), the run
\* ends in an error: it never completes its output with the pair left out.
C3_AsymmetricInterfaceReported == AsymmetricInterface => pc # "done"

\* C4: an element whose physical-group id has no entry in $PhysicalNames
\* makes assembly fail; it is in no mesh bucket and nothing is written.
C4_UnknownPhysicalGroupAborts ==
    \A i \in 1..Len(records) :
        (records[i].tags # <<>>
            /\ Tag(records[i].tags, 0) \notin DOMAIN PhysicalNames) =>
           /\ pc = "failed"
           /\ files = <<>>
           /\ \A k \in DOMAIN meshes : \A j \in 1..Len(meshes[k]) :
                 meshes[k][j].id # records[i].id

\* C5: an element record whose type id is no ELEMENT_TYPE_ID fails the
\* assembly with UnsupportedElementType: the record is the last one read,
\* the element is in no bucket, and no output was opened or written.
C5_UnsupportedElementTypeAborts ==
    \A i \in 1..Len(records) :
        records[i].typeId \notin ELEMENT_TYPE_ID =>
           /\ pc = "failed"
           /\ error = "UnsupportedElementType"
           /\ i = Len(records)
           /\ SumOver(DOMAIN meshes, BucketSize) = i - 1
           /\ \A k \in DOMAIN meshes : \A j \in 1..Len(meshes[k]) :
                 meshes[k][j].id # records[i].id
           /\ calls = <<>>
           /\ files = <<>>

\* An unsupported record was read after two supported ones.
C5_Witness ==
    /\ error = "UnsupportedElementType"
    /\ Len(records) = 3
    /\ records[3].typeId = UnknownTypeId
    /\ SumOver(DOMAIN meshes, BucketSize) = 2

\* C6: with local ordering, every emitted connectivity entry maps back
\* through localToGlobalMap to the global id it replaced: one-based, entry r
\* of an element has localToGlobalMap[r-1] = g; zero-based, the emitted r'
\* has localToGlobalMap[r'] = g-1 (C++ indices; the sequences here are
\* one-based, which adds one to the index).
C6_LocalRenumberingRoundTrip ==
    useLocalNodalConnectivity =>
       \A c \in 1..Len(calls) :
          LET args == calls[c]
              original == ProcessMesh(meshes, args.processId)
              shift == IF useZeroBasedIndexing THEN 1 ELSE 0
          IN /\ DOMAIN args.process_mesh = DOMAIN original
             /\ \A k \in DOMAIN original :
                   /\ Len(args.process_mesh[k]) = Len(original[k])
                   /\ \A i \in 1..Len(original[k]) :
                         LET emitted == args.process_mesh[k][i].nodalConnectivity
                             global == original[k][i].nodalConnectivity
                         IN /\ Len(emitted) = Len(global)
                            /\ \A j \in 1..Len(global) :
                                  /\ emitted[j] + shift \in
                                         1..Len(args.localToGlobalMapping)
                                  /\ args.localToGlobalMapping[emitted[j] + shift]
                                         = global[j] - shift

\* A partition whose nodes are 1 and 3 was renumbered and zero-based: the
\* mapping is <<0, 2>> and the edge <<3, 1>> was emitted as <<1, 0>>.
C6_Witness ==
    /\ useLocalNodalConnectivity
    /\ useZeroBasedIndexing
    /\ \E c \in 1..Len(calls) :
          /\ calls[c].localToGlobalMapping = <<0, 2>>
          /\ \E k \in DOMAIN calls[c].process_mesh :
                \E i \in 1..Len(calls[c].process_mesh[k]) :
                    calls[c].process_mesh[k][i].nodalConnectivity = <<1, 0>>

\* The event of a partition as it is written with IndexingBase::One.
OneBasedEvent(processId) ==
    JsonEvent(WriteArguments(processId, FALSE, useLocalNodalConnectivity))

\* C7: every id written with IndexingBase::Zero (node ids, element ids,
\* connectivity entries, localToGlobalMap entries, interface node ids) is
\* the id written with IndexingBase::One for the same input, minus one.
C7_ZeroBasedShiftsEveryId ==
    useZeroBasedIndexing =>
       \A f \in Written :
          LET zero == files[f].event
              one == OneBasedEvent(files[f].processId)
          IN /\ zero.Nodes.Indices = Decremented(one.Nodes.Indices)
             /\ zero.LocalToGlobalMap = Decremented(one.LocalToGlobalMap)
             /\ Len(zero.Elements) = Len(one.Elements)
             /\ \A g \in 1..Len(one.Elements) :
                   /\ zero.Elements[g].Indices =
                          Decremented(one.Elements[g].Indices)
                   /\ zero.Elements[g].NodalConnectivity =
                          [i \in 1..Len(one.Elements[g].NodalConnectivity) |->
                              Decremented(one.Elements[g].NodalConnectivity[i])]
             /\ Len(zero.Interface) = Len(one.Interface)
             /\ \A g \in 1..Len(one.Interface) :
                   zero.Interface[g].NodeIds =
                       Decremented(one.Interface[g].NodeIds)

\* The part of C7 that leaves the interface node ids out.
C7_ZeroBasedShiftsMeshIds ==
    useZeroBasedIndexing =>
       \A f \in Written :
          LET zero == files[f].event
              one == OneBasedEvent(files[f].processId)
          IN /\ zero.Nodes.Indices = Decremented(one.Nodes.Indices)
             /\ zero.LocalToGlobalMap = Decremented(one.LocalToGlobalMap)
             /\ Len(zero.Elements) = Len(one.Elements)
             /\ \A g \in 1..Len(one.Elements) :
                   /\ zero.Elements[g].Indices =
                          Decremented(one.Elements[g].Indices)
                   /\ zero.Elements[g].NodalConnectivity =
                          [i \in 1..Len(one.Elements[g].NodalConnectivity) |->
                              Decremented(one.Elements[g].NodalConnectivity[i])]

\* Every record read names a physical group of $PhysicalNames.
ValidPhysicalIds ==
    \A i \in 1..Len(records) : Tag(records[i].tags, 0) \in DOMAIN PhysicalNames

\* The records of a (name, type) key, in the order read.
RecordsOf(key) ==
    SelectSeq(records,
              LAMBDA e : <<PhysicalNames[Tag(e.tags, 0)], e.typeId>> = key)

\* C8: after a successful parse the bucket lengths sum to the element count
\* the Elements record declares; for a valid input every bucket holds
\* exactly the records of its (name, type) key, in the order read, so every
\* record is in exactly one bucket.
C8_ElementConservation ==
    ParseSucceeded =>
       /\ SumOver(DOMAIN meshes, BucketSize) = elementIds
       /\ Len(records) = elementIds
       /\ ValidPhysicalIds =>
             /\ \A i \in 1..Len(records) :
                   <<PhysicalNames[Tag(records[i].tags, 0)], records[i].typeId>>
                       \in DOMAIN meshes
             /\ \A k \in DOMAIN meshes : meshes[k] = RecordsOf(k)

\* A valid file of three elements was assembled into two buckets.
C8_Witness ==
    /\ pc = "writeMeshToJson"
    /\ elementIds = 3
    /\ ValidPhysicalIds
    /\ Cardinality(DOMAIN meshes) = 2
    /\ \E k \in DOMAIN meshes : Len(meshes[k]) = 2

\* Every file so far is of the next partition, in ascending order.
FilesAscend == \A i \in 1..Len(files) : files[i].processId = i - 1

\* No element is shared or assigned to a partition above 1.
SinglePartitionInput ==
    \A i \in 1..Len(records) : ProcessIds(records[i].tags) \subseteq {1}

DistributedMembers == {"LocalToGlobalMap", "Interface", "NumInterfaceNodes"}

ObservedPartitionIds(tags) ==
    IF Len(tags) < 4 THEN {}
    ELSE {Abs(Tag(tags, 3))}
         \cup {Abs(Tag(tags, i)) : i \in 4..(Tag(tags, 2) + 2)}

ObservedMaximum(rs) ==
    MaxOf({1} \cup UNION {ObservedPartitionIds(rs[i].tags) : i \in 1..Len(rs)})

\* C10: the partition count never decreases from one step to the next, and
\* when fillMesh returns it is the greatest partition id of any element
\* read (owner and sharers, by absolute value), and 1 if there is none.
C10_PartitionCountAccumulates ==
    [][/\ number_of_partitions' >= number_of_partitions
       /\ (pc = "fillMesh" /\ pc' = "writeMeshToJson") =>
             number_of_partitions' = ObservedMaximum(records')]_vars

\* The count is 3 from a sharer tag of the first element, whose owner is 1,
\* and the last element read carries no partition id.
C10_Witness ==
    /\ pc = "writeMeshToJson"
    /\ Len(records) = 3
    /\ number_of_partitions = 3
    /\ records[1].tags = <<1, 0, 2, 1, -3>>
    /\ Len(records[3].tags) = 2

\* C11: the complementary pairs are intersected, and a missing complement
\* is found, before the output stream of any partition is opened: a run
\* that fails in reconciliation has created no output file, whether
\* complete, empty or truncated.
C11_ReconciliationPrecedesOutput ==
    /\ error = "out_of_range" => files = <<>>
    /\ \A i \in 1..Len(files) : files[i].written

\* C12: for every partition, the local node list has the length and order of
\* localToGlobalMap, and its entry i is the node of $Nodes whose id is
\* localToGlobalMap[i], for every file with distinct node ids.  (The
\* zero-based shift lowers the id of the node and the entry alike.)
C12_LocalNodesMatchMapping ==
    \A c \in 1..Len(calls) :
       LET args == calls[c]
           shift == IF useZeroBasedIndexing THEN 1 ELSE 0
       IN /\ Len(args.nodalCoordinates) = Len(args.localToGlobalMapping)
          /\ \A i \in 1..Len(args.localToGlobalMapping) :
                /\ args.nodalCoordinates[i].id = args.localToGlobalMapping[i]
                /\ \E n \in 1..Len(nodeList) :
                      /\ nodeList[n].id = args.localToGlobalMapping[i] + shift
                      /\ nodeList[n].coordinates =
                             args.nodalCoordinates[i].coordinates

\* The node ids in the connectivity of the elements of the global mesh that
\* partition p (one-based) owns.
OwnedNodeIds(p) ==
    UNION {UNION {Range(meshes[k][i].nodalConnectivity) :
                     i \in {j \in 1..Len(meshes[k]) :
                               isOwnedByProcess(meshes[k][j], p)}} :
              k \in DOMAIN meshes}

\* The mapping handed to the writer in call c, before the zero-based shift.
MappingOf(c) ==
    [i \in 1..Len(calls[c].localToGlobalMapping) |->
        calls[c].localToGlobalMapping[i] + (IF useZeroBasedIndexing THEN 1 ELSE 0)]

L2GExact ==
    \A c \in 1..Len(calls) :
       LET map == MappingOf(c)
       IN /\ \A i \in 1..Len(map) - 1 : map[i] < map[i + 1]
          /\ Range(map) = OwnedNodeIds(calls[c].processId + 1)
          /\ map = fillLocalToGlobalMap(ProcessMesh(meshes, calls[c].processId))

\* C13: the localToGlobalMap of every partition is strictly ascending (so
\* duplicate-free), its entries are exactly the node ids in the connectivity
\* of the elements the partition owns, computing it again on the same mesh
\* and partition gives the same list, and the extraction of the partitions
\* leaves the global mesh as it was.
C13_LocalToGlobalMapExact ==
    /\ []L2GExact
    /\ [][pc = "writeMeshToJson" => meshes' = meshes]_vars

\* A partition that owns two elements with a node in common: the mapping
\* holds the common node once.
C13_Witness ==
    \E c \in 1..Len(calls) :
       /\ MappingOf(c) = <<1, 2, 3>>
       /\ \E k \in DOMAIN calls[c].process_mesh :
             Len(calls[c].process_mesh[k]) >= 2

\* The number of nodes of an element family in the Gmsh format: the number
\* in the name of the type, and one for a point.
FormatNodeCount(elementTypeId) ==
    CASE elementTypeId = LINE2 -> 2
      [] elementTypeId = TRIANGLE3 -> 3
      [] elementTypeId = QUADRILATERAL4 -> 4
      [] elementTypeId = TETRAHEDRON4 -> 4
      [] elementTypeId = HEXAHEDRON8 -> 8
      [] elementTypeId = PRISM6 -> 6
      [] elementTypeId = PYRAMID5 -> 5
      [] elementTypeId = LINE3 -> 3
      [] elementTypeId = TRIANGLE6 -> 6
      [] elementTypeId = QUADRILATERAL9 -> 9
      [] elementTypeId = TETRAHEDRON10 -> 10
      [] elementTypeId = HEXAHEDRON27 -> 27
      [] elementTypeId = PRISM18 -> 18
      [] elementTypeId = PYRAMID14 -> 14
      [] elementTypeId = POINT -> 1
      [] elementTypeId = QUADRILATERAL8 -> 8
      [] elementTypeId = HEXAHEDRON20 -> 20
      [] elementTypeId = PRISM15 -> 15
      [] elementTypeId = PYRAMID13 -> 13
      [] elementTypeId = TRIANGLE9 -> 9
      [] elementTypeId = TRIANGLE10 -> 10
      [] elementTypeId = TRIANGLE12 -> 12
      [] elementTypeId = TRIANGLE15 -> 15
      [] elementTypeId = TRIANGLE15_IC -> 15
      [] elementTypeId = TRIANGLE21 -> 21
      [] elementTypeId = EDGE4 -> 4
      [] elementTypeId = EDGE5 -> 5
      [] elementTypeId = EDGE6 -> 6
      [] elementTypeId = TETRAHEDRON20 -> 20
      [] elementTypeId = TETRAHEDRON35 -> 35
      [] elementTypeId = TETRAHEDRON56 -> 56
      [] elementTypeId = HEXAHEDRON64 -> 64
      [] elementTypeId = HEXAHEDRON125 -> 125

\* C14: for every type id of the known set the node count of the catalog is
\* the number of nodes of the element family in the format, so the
\* connectivity read for an element of a known type has exactly that many
\* node ids.
C14_CatalogNodeCounts ==
    \A i \in 1..Len(records) :
       records[i].typeId \in ELEMENT_TYPE_ID =>
          Len(records[i].nodalConnectivity) = FormatNodeCount(records[i].typeId)

====
